---- MODULE Spec2Model ----
(***************************************************************************)
(* A model of text-blind-watermark-js: the zero-width text watermark codec *)
(* (src/src/index.ts) and the LSB image steganography codec                *)
(* (src/src/text-blind-watermark.ts, lines 326-707).                       *)
(*                                                                         *)
(* Representation.  A JavaScript string is the sequence of its code points *)
(* (Array.from), a Uint8Array the sequence of its bytes, a hex string the  *)
(* sequence of its digit values 0..15, a bit string the sequence of its    *)
(* digits 0/1.  An optional value is <<>> (undefined) or <<v>>.            *)
(***************************************************************************)
EXTENDS Integers, Sequences, FiniteSets, TLC

(***************************************************************************)
(* Bounds of the model.                                                    *)
(***************************************************************************)
MaxTextLen == 2
MaxPayloadLen == 2
MaxCalls == 3
DrawFuel == 400

(***************************************************************************)
(* Generic helpers.                                                        *)
(***************************************************************************)
SeqsUpTo(S, n) == UNION {[1..k -> S] : k \in 0..n}

Min(S) == CHOOSE x \in S : \A y \in S : x <= y

Range(s) == {s[i] : i \in 1..Len(s)}

\* JavaScript's slice(from, to) on a sequence, 0-based, to exclusive, clamped.
Slice(s, from, to) ==
  LET f == IF from < 0 THEN 0 ELSE IF from > Len(s) THEN Len(s) ELSE from
      t == IF to < f THEN f ELSE IF to > Len(s) THEN Len(s) ELSE to
  IN  [i \in 1..(t - f) |-> s[f + i]]

\* Concatenation of a sequence of sequences (join('')).
RECURSIVE Flatten(_)
Flatten(ss) == IF ss = <<>> THEN <<>> ELSE Head(ss) \o Flatten(Tail(ss))

\* n as bitLength binary digits, most significant first (0 <= n < 2^31, so
\* that the digits of weight 2^31 and more are 0).
ToBits(n, bitLength) ==
  [i \in 1..bitLength |->
     IF bitLength - i >= 31 THEN 0 ELSE (n \div (2 ^ (bitLength - i))) % 2]

\* The number a digit string denotes in the given radix (digits non-empty).
RECURSIVE FromDigits(_, _)
FromDigits(digits, radix) ==
  IF digits = <<>> THEN 0
  ELSE FromDigits(SubSeq(digits, 1, Len(digits) - 1), radix) * radix
       + digits[Len(digits)]

\* Bitwise exclusive or of two bytes (JavaScript ^ on values 0..255).
Xor(a, b) ==
  FromDigits([i \in 1..8 |-> (ToBits(a, 8)[i] + ToBits(b, 8)[i]) % 2], 2)

(***************************************************************************)
(* The alphabets (index.ts 12-55): entry d + 1 is the code point of digit  *)
(* d.                                                                      *)
(***************************************************************************)
ZERO_WIDTH_CHARS ==
  << 8203, 8288, 8289, 8290, 8291, 8292, 65279, 8204,
     8205, 6155, 6156, 6157, 65024, 65025, 65026, 65027 >>

BINARY_ZERO_WIDTH_CHARS == << 8203, 8204 >>

BASE4_ZERO_WIDTH_CHARS == << 8203, 8288, 8290, 8291 >>

BASE8_ZERO_WIDTH_CHARS == << 8203, 8288, 8289, 8290, 8291, 8292, 65279, 8204 >>

\* The digit of code point c in an alphabet, <<>> when c is not in it
\* (the reverse maps CHAR_TO_HEX, BINARY_CHAR_TO_BIT, ...: a lookup miss is
\* undefined, which `|| ''` turns into the empty string).
DigitOf(alphabet, c) ==
  IF c \in Range(alphabet)
  THEN << (CHOOSE d \in 1..Len(alphabet) : alphabet[d] = c) - 1 >>
  ELSE <<>>

ZeroWidthSet ==
  Range(ZERO_WIDTH_CHARS) \cup Range(BINARY_ZERO_WIDTH_CHARS)
    \cup Range(BASE4_ZERO_WIDTH_CHARS) \cup Range(BASE8_ZERO_WIDTH_CHARS)

(***************************************************************************)
(* Byte and string conversions (index.ts 78-323).                          *)
(***************************************************************************)
\* An xorCrypt that does not cycle the key: bytes past the key's length are
\* left as they are.
xorCryptNoCycle(data, key) ==
  [i \in 1..Len(data) |->
     IF i > Len(key) THEN data[i] ELSE Xor(data[i], key[i])]

\* xorCrypt: key[i % key.length] is undefined for an empty key, and
\* data[i] ^ undefined is data[i].
xorCrypt(data, key) ==
  [i \in 1..Len(data) |->
     IF Len(key) = 0 THEN data[i]
     ELSE Xor(data[i], key[((i - 1) % Len(key)) + 1])]

\* The UTF-8 bytes of one code point (a lone surrogate encodes as U+FFFD).
Utf8Of(c) ==
  IF c <= 127 THEN << c >>
  ELSE IF c <= 2047 THEN << 192 + (c \div 64), 128 + (c % 64) >>
  ELSE IF c >= 55296 /\ c <= 57343 THEN << 239, 191, 189 >>
  ELSE IF c <= 65535
    THEN << 224 + (c \div 4096), 128 + ((c \div 64) % 64), 128 + (c % 64) >>
  ELSE << 240 + (c \div 262144), 128 + ((c \div 4096) % 64),
          128 + ((c \div 64) % 64), 128 + (c % 64) >>

stringToBytes(str) == Flatten([i \in 1..Len(str) |-> Utf8Of(str[i])])

bytesToHex(bytes) ==
  Flatten([i \in 1..Len(bytes) |-> << bytes[i] \div 16, bytes[i] % 16 >>])

hexToBytes(hex) ==
  [i \in 1..(Len(hex) \div 2) |-> hex[2 * i - 1] * 16 + hex[2 * i]]

encodeToZeroWidth(hex) == [i \in 1..Len(hex) |-> ZERO_WIDTH_CHARS[hex[i] + 1]]

bytesToBitString(bytes) ==
  Flatten([i \in 1..Len(bytes) |-> ToBits(bytes[i], 8)])

encodeBitsToZeroWidth(bits) ==
  [i \in 1..Len(bits) |-> BINARY_ZERO_WIDTH_CHARS[bits[i] + 1]]

\* padEnd(n, '0') of a bit group.
PadEnd(group, n) == group \o [i \in 1..(n - Len(group)) |-> 0]

\* The groups of n bits each, the last one padded, as digit values.
GroupDigits(bits, n) ==
  [k \in 1..((Len(bits) + n - 1) \div n) |->
     FromDigits(PadEnd(Slice(bits, n * (k - 1), n * k), n), 2)]

encodeBitsToZeroWidthBase4(bits) ==
  [k \in 1..Len(GroupDigits(bits, 2)) |->
     BASE4_ZERO_WIDTH_CHARS[GroupDigits(bits, 2)[k] + 1]]

encodeBitsToZeroWidthBase8(bits) ==
  [k \in 1..Len(GroupDigits(bits, 3)) |->
     BASE8_ZERO_WIDTH_CHARS[GroupDigits(bits, 3)[k] + 1]]

decodeFromZeroWidth(zeroWidthText) ==
  Flatten([i \in 1..Len(zeroWidthText) |->
             DigitOf(ZERO_WIDTH_CHARS, zeroWidthText[i])])

\* The bits of every character that is in the alphabet, width bits each.
DecodeBits(alphabet, width, zeroWidthText) ==
  Flatten([i \in 1..Len(zeroWidthText) |->
             LET d == DigitOf(alphabet, zeroWidthText[i])
             IN  IF d = <<>> THEN <<>> ELSE ToBits(d[1], width)])

decodeZeroWidthToBits(zeroWidthText) ==
  DecodeBits(BINARY_ZERO_WIDTH_CHARS, 1, zeroWidthText)

\* The base4 decoder mapped to the table of the binary alphabet.
decodeZeroWidthBase4AsBinary(zeroWidthText) ==
  DecodeBits(BINARY_ZERO_WIDTH_CHARS, 1, zeroWidthText)

decodeZeroWidthBase4ToBits(zeroWidthText) ==
  DecodeBits(BASE4_ZERO_WIDTH_CHARS, 2, zeroWidthText)

decodeZeroWidthBase8ToBits(zeroWidthText) ==
  DecodeBits(BASE8_ZERO_WIDTH_CHARS, 3, zeroWidthText)

bitStringToBytes(bits) ==
  [i \in 1..(Len(bits) \div 8) |-> FromDigits(Slice(bits, 8 * (i - 1), 8 * i), 2)]

(***************************************************************************)
(* SimpleRandom (index.ts 328-343).  The state is the field `seed`.  The   *)
(* arithmetic is exact for the integer seeds of the model: the products    *)
(* stay far below 2^53.                                                    *)
(***************************************************************************)
\* (seed * 9301 + 49297) % 233280, computed as (seed * 93) * 100 + seed so
\* that no intermediate value leaves the 32-bit integers of the checker.
LcgStep(seed) ==
  IF seed >= 0
  THEN ((((seed * 93) % 233280) * 100) + seed + 49297) % 233280
  ELSE IF seed >= -5 THEN (seed * 9301 + 49297) % 233280
  ELSE 0 - ((((((0 - seed) * 93) % 233280) * 100) + (0 - seed) - 49297) % 233280)

\* A generator that is constructed once and shared by the calls: it goes on
\* from the state the previous call left.
SimpleRandomShared(seed, now, left) ==
  IF left # <<>> THEN left[1] ELSE IF seed = <<>> THEN now ELSE seed[1]

\* new SimpleRandom(seed): the seed given, or Date.now() (here `now`) when it
\* is undefined.  `left` is the state an earlier generator was left in; the
\* constructor starts from the seed and never from `left`.
SimpleRandom(seed, now, left) == IF seed = <<>> THEN now ELSE seed[1]

\* nextInt(max) on the state that next() has just stored:
\* Math.floor((seed / 233280) * max).
nextInt(seed, max) == (seed * max) \div 233280

(***************************************************************************)
(* insertWatermarkRandomly (index.ts 348-383).                             *)
(***************************************************************************)
\* do { pos = random.nextInt(max) } while (positions.includes(pos)).
\* found is FALSE when the loop has not ended after DrawFuel further draws.
RECURSIVE DrawPosition(_, _, _, _)
DrawPosition(seed, positions, max, fuel) ==
  LET s1 == LcgStep(seed)
      pos == nextInt(s1, max)
  IN  IF pos \notin Range(positions)
      THEN [found |-> TRUE, seed |-> s1, positions |-> Append(positions, pos)]
      ELSE IF fuel = 0
      THEN [found |-> FALSE, seed |-> s1, positions |-> positions]
      ELSE DrawPosition(s1, positions, max, fuel - 1)

\* for (let i = 0; i < watermarkArray.length; i++) { ... positions.push(pos) }
RECURSIVE GeneratePositions(_, _, _, _, _)
GeneratePositions(seed, positions, i, count, textLength) ==
  IF i >= count THEN [found |-> TRUE, seed |-> seed, positions |-> positions]
  ELSE LET d == DrawPosition(seed, positions, textLength + i + 1, DrawFuel)
       IN  IF ~d.found THEN d
           ELSE GeneratePositions(d.seed, d.positions, i + 1, count, textLength)

\* positions.sort((a, b) => b - a), read from its last element to its first:
\* the positions in ascending order.
RECURSIVE Ascending(_)
Ascending(positions) ==
  IF positions = <<>> THEN <<>>
  ELSE LET m == Min(Range(positions))
           k == CHOOSE j \in 1..Len(positions) : positions[j] = m
       IN  <<m>> \o Ascending(SubSeq(positions, 1, k - 1)
                               \o SubSeq(positions, k + 1, Len(positions)))

\* result.splice(pos, 0, char): a negative start counts from the end, and
\* the start is clamped to 0..length.
Splice(result, pos, char) ==
  LET len == Len(result)
      start == IF pos < 0 THEN (IF len + pos < 0 THEN 0 ELSE len + pos)
               ELSE IF pos > len THEN len ELSE pos
  IN  SubSeq(result, 1, start) \o <<char>> \o SubSeq(result, start + 1, len)

\* watermarkArray.forEach((char, index) => result.splice(
\*   positions[watermarkArray.length - 1 - index], 0, char))
RECURSIVE InsertChars(_, _, _, _)
InsertChars(result, watermarkArray, ascending, index) ==
  IF index > Len(watermarkArray) THEN result
  ELSE InsertChars(Splice(result, ascending[index], watermarkArray[index]),
                   watermarkArray, ascending, index + 1)

\* The call's outcome: returned is FALSE when the position loop did not end;
\* random is the state the call's generator is left in, positions the
\* array `positions` as the loop filled it, before it is sorted.
insertWatermarkRandomly(originalText, watermarkChars, seed, now, left) ==
  IF Len(watermarkChars) = 0
  THEN [returned |-> TRUE, text |-> originalText, random |-> left,
        positions |-> <<>>]
  ELSE LET g == GeneratePositions(SimpleRandom(seed, now, left), <<>>, 0,
                                  Len(watermarkChars), Len(originalText))
       IN  IF ~g.found
           THEN [returned |-> FALSE, text |-> <<>>, random |-> <<g.seed>>,
                 positions |-> g.positions]
           ELSE [returned |-> TRUE,
                 text |-> InsertChars(originalText, watermarkChars,
                                      Ascending(g.positions), 1),
                 random |-> <<g.seed>>,
                 positions |-> g.positions]

\* extractZeroWidthChars keeping the characters of the binary alphabet only.
extractBinaryChars(text) ==
  SelectSeq(text, LAMBDA c : c \in Range(BINARY_ZERO_WIDTH_CHARS))

extractZeroWidthChars(text) == SelectSeq(text, LAMBDA c : c \in ZeroWidthSet)

(***************************************************************************)
(* TextBlindWatermark (index.ts 403-547).                                  *)
(***************************************************************************)
Str(v) == [kind |-> "string", value |-> v]

Bytes(v) == [kind |-> "bytes", value |-> v]

\* The string 'default_password'.
DefaultPassword ==
  << 100, 101, 102, 97, 117, 108, 116, 95, 112, 97, 115, 115, 119, 111, 114, 100 >>

\* constructor(options): options.password is a Uint8Array, a string or
\* undefined; options.encoding ?? 'hex'.
TextBlindWatermark(options) ==
  [password |->
     IF options.password = <<>> THEN stringToBytes(DefaultPassword)
     ELSE IF options.password[1].kind = "bytes" THEN options.password[1].value
     ELSE stringToBytes(options.password[1].value),
   seed |-> options.seed,
   encoding |-> IF options.encoding = <<>> THEN "hex" ELSE options.encoding[1]]

\* numberToFixedBits(n, bitLength), for 0 <= n < 2^bitLength.
numberToFixedBits(n, bitLength) == ToBits(n, bitLength)

\* The zero-width characters addWatermarkRandom inserts (index.ts 431-454).
WatermarkChars(this, watermark) ==
  LET watermarkBytes == IF watermark.kind = "string"
                        THEN stringToBytes(watermark.value) ELSE watermark.value
      encryptedWatermark == xorCrypt(watermarkBytes, this.password)
  IN  CASE this.encoding = "binary" ->
             encodeBitsToZeroWidth(bytesToBitString(encryptedWatermark))
        [] this.encoding = "base4" ->
             encodeBitsToZeroWidthBase4(bytesToBitString(encryptedWatermark))
        [] this.encoding = "base8" ->
             encodeBitsToZeroWidthBase8(
               numberToFixedBits(Len(encryptedWatermark), 32)
                 \o bytesToBitString(encryptedWatermark))
        [] OTHER -> encodeToZeroWidth(bytesToHex(encryptedWatermark))

addWatermarkRandom(this, text, watermark, now, left) ==
  insertWatermarkRandomly(text, WatermarkChars(this, watermark), this.seed, now, left)

\* The messages of the errors extract throws.
NotFound == "watermark not found"
InvalidFormat == "invalid watermark format"
InvalidLength == "invalid watermark length"

Ok(bytes) == [ok |-> TRUE, bytes |-> bytes, error |-> ""]

Failed(error) == [ok |-> FALSE, bytes |-> <<>>, error |-> error]

\* parseInt(bits.slice(0, 32), 2) >>> 0.  A value of 2^24 or more is
\* returned as 2^24: it exceeds every length of the model either way.
ParseLength32(bits) ==
  IF \E i \in 1..8 : bits[i] = 1 THEN 2 ^ 24
  ELSE FromDigits(SubSeq(bits, 9, 32), 2)

extract(this, textWithWatermark) ==
  LET zeroWidthChars == extractZeroWidthChars(textWithWatermark)
  IN  IF zeroWidthChars = <<>> THEN Failed(NotFound)
      ELSE CASE this.encoding = "binary" ->
             LET bits == decodeZeroWidthToBits(zeroWidthChars)
             IN  IF bits = <<>> \/ Len(bits) % 8 # 0 THEN Failed(InvalidFormat)
                 ELSE Ok(xorCrypt(bitStringToBytes(bits), this.password))
        [] this.encoding = "base4" ->
             LET bits == decodeZeroWidthBase4ToBits(zeroWidthChars)
             IN  IF bits = <<>> \/ Len(bits) % 8 # 0 THEN Failed(InvalidFormat)
                 ELSE Ok(xorCrypt(bitStringToBytes(bits), this.password))
        [] this.encoding = "base8" ->
             LET bits == decodeZeroWidthBase8ToBits(zeroWidthChars)
             IN  IF bits = <<>> \/ Len(bits) < 32 THEN Failed(InvalidFormat)
                 ELSE LET lenBytes == ParseLength32(Slice(bits, 0, 32))
                          payloadBits == Slice(bits, 32, 32 + lenBytes * 8)
                      IN  IF Len(payloadBits) # lenBytes * 8
                          THEN Failed(InvalidLength)
                          ELSE Ok(xorCrypt(bitStringToBytes(payloadBits),
                                           this.password))
        [] OTHER ->
             LET hexWatermark == decodeFromZeroWidth(zeroWidthChars)
             IN  IF hexWatermark = <<>> \/ Len(hexWatermark) % 2 # 0
                 THEN Failed(InvalidFormat)
                 ELSE Ok(xorCrypt(hexToBytes(hexWatermark), this.password))

\* hasWatermark looking for the characters of the binary alphabet only.
hasWatermarkBinary(text) == Len(extractBinaryChars(text)) > 0

hasWatermark(text) == Len(extractZeroWidthChars(text)) > 0

removeWatermark(textWithWatermark) ==
  SelectSeq(textWithWatermark, LAMBDA c : c \notin ZeroWidthSet)

(***************************************************************************)
(* The state.  A writer instance and a reader instance of the text codec   *)
(* are constructed; the writer watermarks `carrier` with `payload`, and    *)
(* the library's operations are then applied to the marked text.           *)
(***************************************************************************)
VARIABLES
  wmOptions,   \* the options the writer instance was constructed with
  rdOptions,   \* the options the reader instance was constructed with
  carrier,     \* the text given to addWatermarkRandom
  payload,     \* the watermark given to addWatermarkRandom
  marked,      \* <<>>, or the outcome of the first addWatermarkRandom call
  repeat,      \* <<>>, or the outcome of the latest repeated call
  calls,       \* the number of addWatermarkRandom calls so far
  random,      \* <<>>, or the state the latest call left its generator in
  extracted,   \* <<>>, or who called extract on the marked text and the result
  removed,     \* <<>>, or the result of removeWatermark on the marked text
  detected,    \* <<>>, or the result of hasWatermark on the marked text
  scan,        \* <<>>, or the latest call of a method on a text of any origin
  loop         \* <<>>, or where the position loop of a running call stands

textVars ==
  << wmOptions, rdOptions, carrier, payload, marked, repeat, calls, random,
     extracted, removed, detected, scan, loop >>

(***************************************************************************)
(* An ImageSteganography instance hides `message` in `cover`; the image it *)
(* returns is read back, as returned or with one least-significant bit     *)
(* flipped.                                                                *)
(***************************************************************************)
VARIABLES
  imOptions,   \* the options the ImageSteganography instance was constructed with
  cover,       \* the imageData given to hideData
  message,     \* the message given to hideData
  vault,       \* the encryptions aesEncrypt has performed
  hidden,      \* <<>>, or the outcome of hideData(cover, message)
  flipped,     \* <<>>, or the frame bit whose channel byte had its LSB flipped
  read,        \* <<>>, or the outcome of extractData on the image
  probe        \* <<>>, or the latest call made to probe or read an image

imageVars == << imOptions, cover, message, vault, hidden, flipped, read, probe >>

vars == << textVars, imageVars >>

\* No image operation is under way.
ImageIdle ==
  /\ imOptions = [password |-> <<>>, checksum |-> <<>>]
  /\ cover = [width |-> 0, height |-> 0, data |-> <<>>]
  /\ message = <<>>
  /\ vault = {}
  /\ hidden = <<>>
  /\ flipped = <<>>
  /\ read = <<>>
  /\ probe = <<>>

(***************************************************************************)
(* The inputs of the model.                                                *)
(***************************************************************************)
\* 'a' and ZERO WIDTH JOINER (the joiner of emoji sequences, digit 8 of the
\* hex alphabet); one more carrier holds ZERO WIDTH SPACE, digit 0 of every
\* alphabet.
CarrierChars == { 97, 8205 }

PayloadBytes == { 65, 255 }

Carriers == SeqsUpTo(CarrierChars, MaxTextLen) \cup { << 8203, 97 >> }

Payloads == { Bytes(b) : b \in SeqsUpTo(PayloadBytes, MaxPayloadLen) }

SeedOptions == { <<>>, << 12345 >>, << -60 >> }

EncodingOptions == { <<>>, << "binary" >>, << "base4" >>, << "base8" >> }

\* The values Date.now() takes in the model.
Clock == { 0, 1000 }

NowFor(this) == IF this.seed = <<>> THEN Clock ELSE { 0 }

Instances == { "same", "other" }

\* The case of the test suite: 'Secure text', 'Secret', 'test_password'
\* against 'wrong_password' (tests/index.test.ts 85-95).
SecureText == << 83, 101, 99, 117, 114, 101, 32, 116, 101, 120, 116 >>
Secret == << 83, 101, 99, 114, 101, 116 >>
TestPassword == << 116, 101, 115, 116, 95, 112, 97, 115, 115, 119, 111, 114, 100 >>
WrongPassword == << 119, 114, 111, 110, 103, 95, 112, 97, 115, 115, 119, 111, 114, 100 >>

\* The writer's and the reader's password: equal, different with the same
\* cycled key ('a' and the bytes of 'aa'),
\* different in the second byte only, and different throughout.
PasswordPairs ==
  { << <<>>, <<>> >>,
    << << Str(<< 97 >>) >>, << Str(<< 97 >>) >> >>,
    << << Str(<<>>) >>, << Str(<<>>) >> >>,
    << << Str(<< 97 >>) >>, << Bytes(<< 97, 97 >>) >> >>,
    << << Str(<< 97, 98 >>) >>, << Str(<< 97 >>) >> >>,
    << << Str(<< 97 >>) >>, << Str(<<>>) >> >>,
    << <<>>, << Bytes(<< 98 >>) >> >> }

TextInputs(passwords, seeds, carriers, payloads) ==
  /\ \E pp \in passwords :
       /\ wmOptions \in [password : { pp[1] }, seed : seeds,
                         encoding : EncodingOptions]
       /\ rdOptions \in [password : { pp[2] }, seed : { <<>> },
                         encoding : { wmOptions.encoding }]
  /\ carrier \in carriers
  /\ payload \in payloads

TextStart ==
  /\ marked = <<>>
  /\ repeat = <<>>
  /\ calls = 0
  /\ random = <<>>
  /\ extracted = <<>>
  /\ removed = <<>>
  /\ detected = <<>>
  /\ scan = <<>>
  /\ loop = <<>>

InitText ==
  /\ \/ TextInputs(PasswordPairs, SeedOptions, Carriers, Payloads)
     \/ TextInputs({ << << Str(TestPassword) >>, << Str(WrongPassword) >> >>,
                     << << Str(TestPassword) >>, << Str(TestPassword) >> >> },
                   SeedOptions, { SecureText }, { Str(Secret) })
  /\ TextStart
  /\ ImageIdle

(***************************************************************************)
(* The operations of the text codec.                                       *)
(***************************************************************************)
Writer == TextBlindWatermark(wmOptions)

Reader == TextBlindWatermark(rdOptions)

\* The instance a method is called on.
Codec(by) == IF by = "writer" THEN Writer ELSE Reader

Outcome(r) ==
  [returned |-> r.returned, text |-> r.text, positions |-> r.positions]

\* The first call of writer.addWatermarkRandom(carrier, payload).
AddWatermark ==
  /\ marked = <<>>
  /\ \E now \in NowFor(Writer) :
       LET r == addWatermarkRandom(Writer, carrier, payload, now, random)
       IN  /\ marked' = << Outcome(r) >>
           /\ random' = r.random
  /\ calls' = 1
  /\ UNCHANGED << wmOptions, rdOptions, carrier, payload, repeat, extracted,
                  removed, detected, scan, loop,
                  imageVars >>

\* A further call with the same arguments, on the writer instance or on
\* another instance constructed with the same options.
AddAgain(instance) ==
  /\ marked # <<>>
  /\ calls < MaxCalls
  /\ \E now \in NowFor(Writer) :
       LET r == addWatermarkRandom(TextBlindWatermark(wmOptions), carrier,
                                   payload, now, random)
       IN  /\ repeat' = << [instance |-> instance, outcome |-> Outcome(r)] >>
           /\ random' = r.random
  /\ calls' = calls + 1
  /\ UNCHANGED << wmOptions, rdOptions, carrier, payload, marked, extracted,
                  removed, detected, scan, loop,
                  imageVars >>

HasMarked == marked # <<>> /\ marked[1].returned

\* extract(marked text), called on the writer or on the reader instance.
Extract(by) ==
  /\ HasMarked
  /\ extracted' =
       << [by |-> by,
           result |-> extract(IF by = "writer" THEN Writer ELSE Reader,
                              marked[1].text)] >>
  /\ removed' = <<>>
  /\ detected' = <<>>
  /\ UNCHANGED << wmOptions, rdOptions, carrier, payload, marked, repeat,
                  calls, random, scan, loop, imageVars >>

RemoveWatermark ==
  /\ HasMarked
  /\ removed' = << removeWatermark(marked[1].text) >>
  /\ extracted' = <<>>
  /\ detected' = <<>>
  /\ UNCHANGED << wmOptions, rdOptions, carrier, payload, marked, repeat,
                  calls, random, scan, loop, imageVars >>

HasWatermark ==
  /\ HasMarked
  /\ detected' = << hasWatermark(marked[1].text) >>
  /\ extracted' = <<>>
  /\ removed' = <<>>
  /\ UNCHANGED << wmOptions, rdOptions, carrier, payload, marked, repeat,
                  calls, random, scan, loop, imageVars >>

NextText ==
  \/ AddWatermark
  \/ \E by \in { "writer", "reader" } : Extract(by)
  \/ RemoveWatermark
  \/ HasWatermark

SpecText == InitText /\ [][NextText]_vars

\* Repeated calls: determinism of the placement for a given seed.
InitSeed ==
  /\ TextInputs({ << << Str(<< 97 >>) >>, << Str(<< 97 >>) >> >> },
                SeedOptions, Carriers, Payloads)
  /\ TextStart
  /\ ImageIdle

NextSeed ==
  \/ AddWatermark
  \/ \E instance \in Instances : AddAgain(instance)

SpecSeed == InitSeed /\ [][NextSeed]_vars

\* A reader constructed with the writer's password and another encoding
\* mode: the options of the two instances differ in `encoding' only.
ModeCarriers ==
  { <<>>, << 97 >>, << 97, 98 >>, [i \in 1..11 |-> 8203] }

ModePayloads == Payloads \cup { Bytes(<<>>), Bytes(<< 0 >>), Bytes(<< 0, 0, 0 >>) }

\* Payloads of seven bytes, written in base8 mode only: 00 00 10 00 C0 83 00
\* and the same bytes under the key 'a'.
LongPayloads ==
  { Bytes(<< 0, 0, 16, 0, 192, 131, 0 >>),
    Bytes(<< 97, 97, 113, 97, 161, 226, 97 >>) }

InitModes ==
  /\ \E password \in { <<>>, << Str(<< 97 >>) >> } :
       /\ wmOptions \in [password : { password }, seed : { << 12345 >> },
                         encoding : EncodingOptions]
       /\ rdOptions \in [password : { password }, seed : { <<>> },
                         encoding : EncodingOptions \ { wmOptions.encoding }]
  /\ carrier \in ModeCarriers
  /\ payload \in ModePayloads
                  \cup (IF wmOptions.encoding = << "base8" >>
                        THEN LongPayloads ELSE {})
  /\ TextStart
  /\ ImageIdle

NextModes == AddWatermark \/ Extract("reader")

SpecModes == InitModes /\ [][NextModes]_vars

\* Calls on texts of any origin: the carrier as given, the text
\* addWatermarkRandom returned, and the text removeWatermark returned.
\* The carriers hold no zero-width character, or characters of one or of
\* several alphabets: ZERO WIDTH SPACE (digit 0 of every alphabet), ZERO
\* WIDTH NON-JOINER (binary 1, base8 7, hex 7), WORD JOINER (not binary),
\* ZERO WIDTH JOINER and U+180B (hex only); the last one is eleven ZERO
\* WIDTH SPACEs, which are 33 bits in base8 mode.
ScanCarriers ==
  { <<>>, << 97 >>, << 97, 98 >>, << 8203 >>, << 97, 8203, 98 >>,
    << 8205 >>, << 97, 8205, 98 >>, << 8288 >>, << 6155, 97 >>,
    << 8203, 8204 >>, << 8204, 97, 8288 >>,
    [i \in 1..8 |-> 8203], [i \in 1..11 |-> 8203] }

ScanPayloads == { Bytes(<<>>), Bytes(<< 65 >>), Bytes(<< 65, 255 >>) }

InitScan ==
  /\ TextInputs({ << <<>>, <<>> >>, << << Str(<< 97 >>) >>, << Str(<<>>) >> >> },
                { << 12345 >> }, ScanCarriers, ScanPayloads)
  /\ TextStart
  /\ ImageIdle

Origins == { "carrier", "marked", "cleaned" }

\* Whether a text of that origin exists in the state.
HasText(origin) ==
  CASE origin = "marked" -> HasMarked
    [] origin = "cleaned" -> scan # <<>> /\ scan[1].op = "removeWatermark"
    [] OTHER -> TRUE

TextOf(origin) ==
  CASE origin = "marked" -> marked[1].text
    [] origin = "cleaned" -> scan[1].result
    [] OTHER -> carrier

Scanned(op, origin, by, result) ==
  /\ scan' = << [op |-> op, origin |-> origin, by |-> by,
                 text |-> TextOf(origin), result |-> result] >>
  /\ UNCHANGED << wmOptions, rdOptions, carrier, payload, marked, repeat,
                  calls, random, extracted, removed, detected, loop,
                  imageVars >>

\* extract(text), called on the writer or on the reader instance.
ScanExtract(origin, by) ==
  /\ HasText(origin)
  /\ Scanned("extract", origin, by, extract(Codec(by), TextOf(origin)))

\* hasWatermark(text).
ScanHasWatermark(origin) ==
  /\ HasText(origin)
  /\ Scanned("hasWatermark", origin, "writer", hasWatermark(TextOf(origin)))

\* removeWatermark(text).
ScanRemoveWatermark(origin) ==
  /\ HasText(origin)
  /\ origin # "cleaned"
  /\ Scanned("removeWatermark", origin, "writer", removeWatermark(TextOf(origin)))

NextScan ==
  \/ AddWatermark
  \/ \E origin \in Origins, by \in { "writer", "reader" } : ScanExtract(origin, by)
  \/ \E origin \in Origins : ScanHasWatermark(origin)
  \/ \E origin \in Origins : ScanRemoveWatermark(origin)

SpecScan == InitScan /\ [][NextScan]_vars

(***************************************************************************)
(* The claims about the text codec.                                        *)
(***************************************************************************)
PayloadBytesOf(watermark) ==
  IF watermark.kind = "string" THEN stringToBytes(watermark.value)
  ELSE watermark.value

ExtractedBy(by) == extracted # <<>> /\ extracted[1].by = by

\* C1: extract, by a codec with the writer's password and mode, of the text
\* addWatermarkRandom returned gives back exactly the payload's bytes, for
\* every carrier, payload, password, seed and mode.
C1_TextRoundTrip ==
  \A by \in { "writer", "reader" } :
    (ExtractedBy(by) /\ Codec(by).password = Writer.password
       /\ Codec(by).encoding = Writer.encoding)
      => extracted[1].result = Ok(PayloadBytesOf(payload))

\* C3: removeWatermark of the text addWatermarkRandom returned is exactly
\* the carrier, for every carrier and payload.
C3_CarrierPreserved == removed # <<>> => removed[1] = carrier

\* C8: with an explicit seed, every repeated addWatermarkRandom call with
\* the same arguments, on the same instance or on another one with the
\* same options, returns, and returns the text the first call returned.
C8_SeedDeterminism ==
  (wmOptions.seed # <<>> /\ repeat # <<>>)
    => /\ repeat[1].outcome = marked[1]
       /\ marked[1].returned

C8_Witness ==
  /\ wmOptions.seed # <<>>
  /\ repeat # <<>>
  /\ repeat[1].instance = "other"
  /\ calls = MaxCalls
  /\ marked[1].returned
  /\ Len(marked[1].text) > Len(carrier)
  /\ Len(carrier) > 0

\* C9: extract under a password other than the writer's (same mode) never
\* raises on a text addWatermarkRandom returned, and returns as many bytes
\* as the payload has.
C9_WrongPasswordNeverRaises ==
  (ExtractedBy("reader") /\ Reader.password # Writer.password)
    => /\ extracted[1].result.ok
       /\ Len(extracted[1].result.bytes) = Len(PayloadBytesOf(payload))

\* The byte of the cycled key that xorCrypt applies at 0-based index i
\* (0 stands for the undefined byte of an empty key).
KeyByteAt(key, i) == IF Len(key) = 0 THEN 0 ELSE key[(i % Len(key)) + 1]

KeysDifferBelow(key1, key2, n) ==
  \E i \in 0..(n - 1) : KeyByteAt(key1, i) # KeyByteAt(key2, i)

ScannedBy(op) == scan # <<>> /\ scan[1].op = op

\* The text holds a character of one of the zero-width alphabets.
HoldsZeroWidth(text) == \E i \in 1..Len(text) : text[i] \in ZeroWidthSet

AlphabetOf(encoding) ==
  CASE encoding = "binary" -> BINARY_ZERO_WIDTH_CHARS
    [] encoding = "base4" -> BASE4_ZERO_WIDTH_CHARS
    [] encoding = "base8" -> BASE8_ZERO_WIDTH_CHARS
    [] OTHER -> ZERO_WIDTH_CHARS

SymbolsPerChar(encoding) ==
  CASE encoding = "binary" -> 1
    [] encoding = "base4" -> 2
    [] encoding = "base8" -> 3
    [] OTHER -> 1

\* The length of the symbol string the mode decodes from a text.
SymbolCount(encoding, text) ==
  SymbolsPerChar(encoding)
    * Cardinality({ i \in 1..Len(text) : text[i] \in Range(AlphabetOf(encoding)) })

UnitSize(encoding) == IF encoding = "hex" THEN 2 ELSE 8

\* C16 as claimed: extract fails as malformed whenever the length of the
\* decoded symbol string is not divisible by the unit size, 2 in hex mode
\* and 8 in binary, base4 and base8 mode.
C16_MalformedWhenIndivisible ==
  ScannedBy("extract")
    => LET encoding == Codec(scan[1].by).encoding
       IN  SymbolCount(encoding, scan[1].text) % UnitSize(encoding) # 0
             => scan[1].result = Failed(InvalidFormat)

\* C16, amended: on a text that holds zero-width characters, extract in
\* hex, binary and base4 mode fails as malformed exactly when the decoded
\* symbol string is empty or its length is not divisible by the unit size;
\* in base8 mode it fails as malformed exactly when fewer than 32 bits are
\* decoded, and otherwise fails with the invalid-length error or returns
\* bytes that the bits after the first 32 suffice for, whether or not the
\* number of bits is divisible by 8.
C16_MalformedAmended ==
  ScannedBy("extract")
    => LET encoding == Codec(scan[1].by).encoding
           count == SymbolCount(encoding, scan[1].text)
           held == HoldsZeroWidth(scan[1].text)
           result == scan[1].result
       IN  IF encoding = "base8"
           THEN /\ result = Failed(InvalidFormat) <=> (held /\ count < 32)
                /\ (held /\ count >= 32)
                     => \/ result = Failed(InvalidLength)
                        \/ /\ result.ok
                           /\ 32 + 8 * Len(result.bytes) <= count
           ELSE /\ result = Failed(InvalidFormat)
                     <=> (held /\ (count = 0 \/ count % UnitSize(encoding) # 0))
                /\ (held /\ count > 0 /\ count % UnitSize(encoding) = 0)
                     => /\ result.ok
                        /\ UnitSize(encoding) * Len(result.bytes) = count

\* extract in base4 mode has failed as malformed on a text that
\* addWatermarkRandom returned, for a number of bits not divisible by 8.
C16_Witness ==
  /\ ScannedBy("extract")
  /\ scan[1].origin = "marked"
  /\ Codec(scan[1].by).encoding = "base4"
  /\ SymbolCount("base4", scan[1].text) > 8
  /\ SymbolCount("base4", scan[1].text) % 8 # 0
  /\ scan[1].result = Failed(InvalidFormat)

\* C19: hasWatermark(t) is true exactly when t holds a character of one of
\* the zero-width alphabets, whatever the mode of the instance; it is true
\* of the text addWatermarkRandom returned when the watermark has
\* characters, and false of every text removeWatermark returned.
C19_HasWatermarkExactly ==
  ScannedBy("hasWatermark")
    => /\ scan[1].result = HoldsZeroWidth(scan[1].text)
       /\ (scan[1].origin = "marked" /\ WatermarkChars(Writer, payload) # <<>>)
            => scan[1].result = TRUE
       /\ scan[1].origin = "cleaned" => scan[1].result = FALSE

\* hasWatermark has returned true for a text addWatermarkRandom returned in
\* hex mode for a carrier without zero-width characters.
C19_Witness ==
  /\ ScannedBy("hasWatermark")
  /\ scan[1].origin = "marked"
  /\ Writer.encoding = "hex"
  /\ carrier = << 97, 98 >>
  /\ scan[1].result = TRUE

\* The characters the mode's encoding gives for the payload's own bytes
\* (the exclusive or with a key of zero leaves every byte as it is).
Unobfuscated(this, watermark) ==
  WatermarkChars([this EXCEPT !.password = << 0 >>], watermark)

\* C20: the key the text codec applies is never empty, whether the password
\* is absent, a string or bytes; an absent password gives the key
\* 'default_password'; and no payload is emitted as it is.
C20_KeyNeverEmpty ==
  marked # <<>>
    => /\ Writer.password # <<>>
       /\ wmOptions.password = <<>>
            => Writer.password = stringToBytes(DefaultPassword)
       /\ PayloadBytesOf(payload) # <<>>
            => WatermarkChars(Writer, payload) # Unobfuscated(Writer, payload)

(***************************************************************************)
(* The image codec (text-blind-watermark.ts 359-648).  A string is the     *)
(* sequence of its code points; imageData is [width, height, data] with    *)
(* data the sequence of the channel bytes R, G, B, A of each pixel.        *)
(***************************************************************************)
\* NaN, the value of parseInt('') and of every arithmetic on it: a value
\* below every number the codec computes.
NaN == 0 - (2 ^ 30)

\* A number of 2^24 or more is held as 2^24: it exceeds every bit count and
\* every capacity of the model either way.
Huge == 2 ^ 24

Times(x, n) == IF x = NaN THEN NaN ELSE IF x * n > Huge THEN Huge ELSE x * n

Plus(x, y) == IF x = NaN \/ y = NaN THEN NaN ELSE x + y

\* A comparison that holds for equal numbers as well.
LessOrEqual(a, b) == a # NaN /\ b # NaN /\ a <= b

\* a < b in JavaScript: false when either side is NaN.
Less(a, b) == a # NaN /\ b # NaN /\ a < b

\* The integer a slice index is converted to: NaN counts as 0.
ToIndex(x) == IF x = NaN THEN 0 ELSE x

\* parseInt(bits, 2) of a string of binary digits.
ParseInt2(bits) ==
  IF bits = <<>> THEN NaN
  ELSE IF \E i \in 1..(Len(bits) - 24) : bits[i] = 1 THEN Huge
  ELSE FromDigits(Slice(bits, Len(bits) - 24, Len(bits)), 2)

\* Stands where a sequence holds no element; SelectSeq drops it.
Nothing == 0 - 1

\* new TextEncoder().encode(str): the UTF-8 bytes of every code point.
TextEncode(str) ==
  SelectSeq([k \in 1..(4 * Len(str)) |->
               LET utf8 == Utf8Of(str[((k - 1) \div 4) + 1])
                   j == ((k - 1) % 4) + 1
               IN  IF j <= Len(utf8) THEN utf8[j] ELSE Nothing],
            LAMBDA byte : byte # Nothing)

\* The code point that starts at byte i of bytes, and the index of the
\* first byte after it: the UTF-8 decoder of new TextDecoder(), which turns
\* each maximal ill-formed subsequence into U+FFFD.
DecodeAt(bytes, i) ==
  LET b == bytes[i]
      need == IF b >= 194 /\ b <= 223 THEN 1
              ELSE IF b >= 224 /\ b <= 239 THEN 2
              ELSE IF b >= 240 /\ b <= 244 THEN 3 ELSE 0
      lower == IF b = 224 THEN 160 ELSE IF b = 240 THEN 144 ELSE 128
      upper == IF b = 237 THEN 159 ELSE IF b = 244 THEN 143 ELSE 191
      Fits(j) == /\ i + j <= Len(bytes)
                 /\ bytes[i + j] >= (IF j = 1 THEN lower ELSE 128)
                 /\ bytes[i + j] <= (IF j = 1 THEN upper ELSE 191)
      bad == { j \in 1..need : ~Fits(j) }
      lead == IF need = 1 THEN b - 192 ELSE IF need = 2 THEN b - 224 ELSE b - 240
  IN  IF b <= 127 THEN [cp |-> b, next |-> i + 1]
      ELSE IF need = 0 THEN [cp |-> 65533, next |-> i + 1]
      ELSE IF bad # {} THEN [cp |-> 65533, next |-> i + Min(bad)]
      ELSE [cp |-> FromDigits(<<lead>> \o [j \in 1..need |-> bytes[i + j] - 128], 64),
            next |-> i + need + 1]

\* Byte i starts a code point or an ill-formed subsequence: none of the
\* three bytes before it takes it as a continuation byte.
StartsAt(bytes, i) ==
  \A k \in 1..3 : (i - k >= 1) => DecodeAt(bytes, i - k).next <= i

\* new TextDecoder().decode(bytes): a leading byte order mark is dropped.
TextDecode(bytes) ==
  LET from == IF Len(bytes) >= 3 /\ SubSeq(bytes, 1, 3) = << 239, 187, 191 >>
              THEN 4 ELSE 1
  IN  SelectSeq([i \in 1..Len(bytes) |->
                   IF i >= from /\ StartsAt(bytes, i)
                   THEN DecodeAt(bytes, i).cp ELSE Nothing],
                LAMBDA cp : cp # Nothing)

\* str.length: the number of UTF-16 code units.
StringLength(str) ==
  Len(str) + Cardinality({ i \in 1..Len(str) : str[i] > 65535 })

stringToBinary(str) ==
  LET bytes == TextEncode(str)
  IN  [k \in 1..(8 * Len(bytes)) |->
         (bytes[((k - 1) \div 8) + 1] \div (2 ^ (7 - ((k - 1) % 8)))) % 2]

binaryToString(binary) ==
  TextDecode([j \in 1..(Len(binary) \div 8) |->
                FromDigits(SubSeq(binary, 8 * j - 7, 8 * j), 2)])

\* The character of a hexadecimal digit, lower case.
HexChar(d) == IF d < 10 THEN 48 + d ELSE 87 + d

\* The character of a base64 digit.
Base64Char(d) ==
  IF d < 26 THEN 65 + d
  ELSE IF d < 52 THEN 71 + d
  ELSE IF d < 62 THEN d - 4
  ELSE IF d = 62 THEN 43 ELSE 47

\* base ^ exponent % modulus, for a modulus below 2^15.
RECURSIVE PowMod(_, _, _)
PowMod(base, exponent, modulus) ==
  IF exponent = 0 THEN 1
  ELSE LET half == PowMod(base, exponent \div 2, modulus)
       IN  (((half * half) % modulus)
              * (IF exponent % 2 = 1 THEN base ELSE 1)) % modulus

\* The sum of terms[lo..hi], modulo modulus.
RECURSIVE SumMod(_, _, _, _)
SumMod(terms, lo, hi, modulus) ==
  IF lo > hi THEN 0
  ELSE IF lo = hi THEN terms[lo] % modulus
  ELSE (SumMod(terms, lo, (lo + hi) \div 2, modulus)
          + SumMod(terms, ((lo + hi) \div 2) + 1, hi, modulus)) % modulus

\* A digest of a byte sequence: the polynomial with the coefficients
\* byte + 1 at the multiplier, modulo modulus.
Digest(bytes, multiplier, modulus) ==
  SumMod([i \in 1..Len(bytes) |->
            ((bytes[i] + 1) * PowMod(multiplier, Len(bytes) - i, modulus)) % modulus],
         1, Len(bytes), modulus)

\* calculateChecksum: the first 8 hexadecimal characters of SHA-256(data).
\* SHA-256 is stood in for by a pair of digests of the UTF-8 bytes, added
\* to e3b0 and c442, which makes the checksum of the empty string e3b0c442.
calculateChecksum(data) ==
  LET bytes == TextEncode(data)
      h1 == (58288 + Digest(bytes, 31, 32749)) % 65536
      h2 == (50242 + Digest(bytes, 257, 32719)) % 65536
  IN  [i \in 1..8 |->
         HexChar(((IF i <= 4 THEN h1 ELSE h2) \div (16 ^ ((8 - i) % 4))) % 16)]

\* A key that depends on the salt only.
deriveKeyUnkeyed(password, salt) == [password |-> <<>>, salt |-> salt]

\* deriveKey: PBKDF2(password, salt), which is taken to give equal keys
\* for equal inputs only.
deriveKey(password, salt) == [password |-> password, salt |-> salt]

\* The length of CryptoJS.AES.encrypt(data, key).toString() for a string
\* key: base64 of 'Salted__', 8 bytes of salt and the PKCS7-padded blocks.
CipherBytes(n) == 16 + 16 * ((n \div 16) + 1)

\* CryptoJS.AES.encrypt(data, key, ...).toString(): base64 text that starts
\* with the encoding of 'Salted__' and is determined by the data, the key
\* and the salt the library draws (kdfSalt); the iv option has no effect
\* on it, a string key taking the library's passphrase mode, which derives
\* its own iv.
CipherText(data, key, kdfSalt) ==
  LET bytes == TextEncode(data) \o <<0>> \o TextEncode(key.password)
                 \o <<0>> \o TextEncode(key.salt) \o <<0>> \o kdfSalt
      h1 == Digest(bytes, 31, 32749)
      h2 == Digest(bytes, 257, 32719)
      raw == CipherBytes(Len(TextEncode(data)))
      length == 4 * ((raw + 2) \div 3)
      padding == (3 - (raw % 3)) % 3
      salted == << 85, 50, 70, 115, 100, 71, 86, 107, 88, 49 >>
  IN  [i \in 1..length |->
         IF i <= 10 THEN salted[i]
         ELSE IF i > length - padding THEN 61
         ELSE IF i <= 13 THEN Base64Char((h1 \div (64 ^ (13 - i))) % 64)
         ELSE IF i <= 16 THEN Base64Char((h2 \div (64 ^ (16 - i))) % 64)
         ELSE Base64Char((h1 + h2 + i) % 64)]

\* aesEncrypt with the random salt and iv it generates given as arguments.
aesEncrypt(data, password, salt, iv, kdfSalt) ==
  IF password = <<>> THEN [encrypted |-> data, salt |-> <<>>, iv |-> <<>>]
  ELSE [encrypted |-> CipherText(data, deriveKey(password, salt), kdfSalt),
        salt |-> salt, iv |-> iv]

\* What the decryption of a text that no encryption under the key has
\* produced can give, besides an error: some string.
Garbage == << 167 >>

Decrypted(text) == [ok |-> TRUE, text |-> text]

DecryptFailed == [ok |-> FALSE, text |-> <<>>]

\* aesDecrypt: the outcomes of the call.  A text that was encrypted under
\* the same key decrypts to its plaintext; any other gives an error or
\* some string.  An empty result raises, as every error does.
aesDecrypt(encryptedData, password, salt, iv, encryptions) ==
  IF password = <<>> THEN { Decrypted(encryptedData) }
  ELSE LET key == deriveKey(password, salt)
           made == { e \in encryptions :
                       e.encrypted = encryptedData /\ e.key = key }
       IN  IF made # {}
           THEN { IF e.data = <<>> THEN DecryptFailed ELSE Decrypted(e.data) :
                    e \in made }
           ELSE { DecryptFailed, Decrypted(Garbage) }

\* constructor(options): { compress: false, checksum: true, ...options }.
ImageSteganography(options) ==
  [password |-> options.password,
   checksum |-> IF options.checksum = <<>> THEN TRUE ELSE options.checksum[1]]

\* this.options.password as a string, '' standing for undefined as well:
\* both are falsy.
PasswordOf(this) == IF this.password = <<>> THEN <<>> ELSE this.password[1]

\* getMaxCapacity with the quotient truncated towards zero in the place of
\* Math.floor.
getMaxCapacityTruncated(this, imageData) ==
  LET totalBits == imageData.width * imageData.height * 3
      headerBits == 32 + (IF this.checksum THEN 16 ELSE 0)
  IN  IF totalBits < headerBits THEN 0 - ((headerBits - totalBits) \div 8)
      ELSE (totalBits - headerBits) \div 8

getMaxCapacity(this, imageData) ==
  LET totalBits == imageData.width * imageData.height * 3
      headerBits == 32 + (IF this.checksum THEN 16 ELSE 0)
  IN  (totalBits - headerBits) \div 8

\* The messages of the errors hideData and extractData throw.
MessageTooLarge == "Message too large"
InvalidMessageLength == "Invalid message length or no hidden data found"
IntegrityCheckFailed == "Data integrity check failed"
InvalidEncryptionMetadata == "Invalid encryption metadata"
DecryptionFailed == "Decryption failed: invalid password or corrupted data"

\* hideData's capacity test with >= in the place of >.
ExceedsCapacityInclusive(totalDataSize, maxCapacity) == totalDataSize >= maxCapacity

\* if (totalDataSize > maxCapacity) throw ...
ExceedsCapacity(totalDataSize, maxCapacity) == totalDataSize > maxCapacity

\* n.toString(2).padStart(32, '0'), for 0 <= n < 2^31.
LengthBinary(n) == ToBits(n, 32)

\* The bit of the frame that channel byte idx (from 1) of the data carries:
\* the alpha channel carries none.
FrameBitOf(idx) ==
  IF (idx - 1) % 4 = 3 THEN NaN ELSE ((idx - 1) \div 4) * 3 + ((idx - 1) % 4)

\* The channel byte (from 1) that carries bit n (from 0) of the frame.
ChannelOf(n) == (n \div 3) * 4 + (n % 3) + 1

\* data[pixelIndex] = bit, in the place of setting the lowest bit only.
SetByte(byte, bit) == bit

\* data[pixelIndex] |= 1, or data[pixelIndex] &= 0xFE.
SetLsb(byte, bit) == (byte \div 2) * 2 + bit

\* newImageData.data aliasing imageData.data, in the place of a copy.
SharedBuffer(data) == [owner |-> "caller", bytes |-> data]

\* new Uint8ClampedArray(imageData.data): an array of its own, holding a
\* copy of the bytes.
NewBuffer(data) == [owner |-> "codec", bytes |-> data]

\* The embedding loop of hideData.
Embed(data, fullBinary) ==
  [idx \in 1..Len(data) |->
     LET n == FrameBitOf(idx)
     IN  IF n # NaN /\ n < Len(fullBinary) THEN SetLsb(data[idx], fullBinary[n + 1])
         ELSE data[idx]]

\* hideData, with the random values aesEncrypt draws given as arguments.
\* The outcome is the image returned or the error thrown; for the error,
\* the two sizes its message names.  `input` is the caller's imageData as
\* the call leaves it, `fresh` whether the data returned is an array other
\* than the caller's.
hideData(this, imageData, msg, salt, iv, kdfSalt) ==
  LET password == PasswordOf(this)
      enc == aesEncrypt(msg, password, salt, iv, kdfSalt)
      processedMessage == IF password # <<>> THEN enc.encrypted ELSE msg
      encryptionMeta == IF password # <<>> THEN enc.salt \o <<58>> \o enc.iv
                        ELSE <<>>
      checksum == IF this.checksum THEN calculateChecksum(processedMessage)
                  ELSE <<>>
      encryptionMetaBinary == stringToBinary(encryptionMeta)
      encryptionMetaLength == Len(encryptionMetaBinary) \div 8
      messageBinary == stringToBinary(processedMessage)
      messageByteLength == Len(messageBinary) \div 8
      checksumBinary == IF this.checksum THEN stringToBinary(checksum) ELSE <<>>
      fullBinary == LengthBinary(encryptionMetaLength) \o encryptionMetaBinary
                      \o LengthBinary(messageByteLength) \o checksumBinary
                      \o messageBinary
      maxCapacity == getMaxCapacity(this, imageData)
      totalDataSize == encryptionMetaLength + messageByteLength
                         + (IF this.checksum THEN StringLength(checksum) ELSE 0)
      parts == [encryptionMeta |-> encryptionMeta,
                processedMessage |-> processedMessage,
                checksum |-> checksum,
                frameBits |-> Len(fullBinary)]
      newData == NewBuffer(imageData.data)
      embedded == Embed(newData.bytes, fullBinary)
  IN  IF ExceedsCapacity(totalDataSize, maxCapacity)
      THEN [ok |-> FALSE, error |-> MessageTooLarge,
            maxCapacity |-> maxCapacity, totalDataSize |-> totalDataSize,
            image |-> [width |-> 0, height |-> 0, data |-> <<>>],
            parts |-> parts, input |-> imageData, fresh |-> FALSE]
      ELSE [ok |-> TRUE, error |-> "",
            maxCapacity |-> maxCapacity, totalDataSize |-> totalDataSize,
            image |-> [width |-> imageData.width, height |-> imageData.height,
                       data |-> embedded],
            parts |-> parts,
            input |-> [imageData EXCEPT
                         !.data = IF newData.owner = "caller" THEN embedded ELSE @],
            fresh |-> newData.owner # "caller"]

\* The bits the reading loops can reach: three for every pixel begun.
ReadableBits(imageData) == 3 * ((Len(imageData.data) + 3) \div 4)

\* imageData.data[pixelIndex] & 1 for frame bit n; a byte past the end of
\* the data is undefined, and undefined & 1 is 0.
LsbAt(imageData, n) ==
  IF ChannelOf(n) <= Len(imageData.data)
  THEN imageData.data[ChannelOf(n)] % 2 ELSE 0

\* binaryIndex after a reading loop bounded by binaryIndex < target.
ReadTo(imageData, binaryIndex, target) ==
  IF ~Less(binaryIndex, target) THEN binaryIndex
  ELSE IF ReadableBits(imageData) <= binaryIndex THEN binaryIndex
  ELSE IF target < ReadableBits(imageData) THEN target
  ELSE ReadableBits(imageData)

\* binaryData when binaryIndex bits have been read.
BinaryData(imageData, binaryIndex) ==
  [k \in 1..binaryIndex |-> LsbAt(imageData, k - 1)]

\* encryptionMeta.split(':'): the first two parts, <<>> for a missing one.
SplitMeta(encryptionMeta) ==
  LET colons == { i \in 1..Len(encryptionMeta) : encryptionMeta[i] = 58 }
      first == IF colons = {} THEN Len(encryptionMeta) + 1 ELSE Min(colons)
      later == { i \in colons : i > first }
      second == IF later = {} THEN Len(encryptionMeta) + 1 ELSE Min(later)
  IN  [salt |-> SubSeq(encryptionMeta, 1, first - 1),
       iv |-> SubSeq(encryptionMeta, first + 1, second - 1)]

Extracted(text, checksumRan, decryptRan) ==
  [ok |-> TRUE, text |-> text, error |-> "",
   checksumRan |-> checksumRan, decryptRan |-> decryptRan]

ExtractFailed(error, checksumRan, decryptRan) ==
  [ok |-> FALSE, text |-> <<>>, error |-> error,
   checksumRan |-> checksumRan, decryptRan |-> decryptRan]

\* The fields extractData reads (text-blind-watermark.ts 546-623), with the
\* index in the stream of least-significant bits at which it takes each
\* of them.
FrameFields(this, imageData) ==
  LET index1 == ReadTo(imageData, 0, 32)
      encryptionMetaLength == ParseInt2(BinaryData(imageData, index1))
      encryptionMetaBits == Times(encryptionMetaLength, 8)
      index2 == ReadTo(imageData, index1, Plus(32, encryptionMetaBits))
      encryptionMeta ==
        binaryToString(Slice(BinaryData(imageData, index2), 32,
                             ToIndex(Plus(32, encryptionMetaBits))))
      dataStartIndex == Plus(Plus(32, encryptionMetaBits), 32)
      index3 == ReadTo(imageData, index2, dataStartIndex)
      messageByteLength ==
        ParseInt2(Slice(BinaryData(imageData, index3),
                        ToIndex(Plus(32, encryptionMetaBits)),
                        ToIndex(dataStartIndex)))
      checksumBits == IF this.checksum THEN 64 ELSE 0
      totalBitsNeeded ==
        Plus(Plus(dataStartIndex, checksumBits), Times(messageByteLength, 8))
      index4 == ReadTo(imageData, index3, totalBitsNeeded)
      binaryData == BinaryData(imageData, index4)
  IN  [encryptionMetaLength |-> encryptionMetaLength,
       encryptionMetaAt |-> 32,
       encryptionMeta |-> encryptionMeta,
       messageByteLengthAt |-> ToIndex(Plus(32, encryptionMetaBits)),
       messageByteLength |-> messageByteLength,
       checksumAt |-> ToIndex(dataStartIndex),
       extractedChecksum |->
         binaryToString(Slice(binaryData, ToIndex(dataStartIndex),
                              ToIndex(Plus(dataStartIndex, checksumBits)))),
       messageAt |-> ToIndex(Plus(dataStartIndex, checksumBits)),
       extractedMessage |->
         binaryToString(Slice(binaryData, ToIndex(Plus(dataStartIndex, checksumBits)),
                              Len(binaryData)))]

\* extractData without the comparison of the checksums.
ChecksumSkipped(this, fields) == FALSE

\* if (this.options.checksum) { ... if (extractedChecksum !==
\* calculatedChecksum) throw ... } (text-blind-watermark.ts 620-631).
ChecksumFails(this, fields) ==
  /\ this.checksum
  /\ fields.extractedChecksum # calculateChecksum(fields.extractedMessage)

\* extractData: the outcomes of the call, each the string returned or the
\* error thrown, with whether the checksum comparison and aesDecrypt ran.
extractData(this, imageData, encryptions) ==
  LET password == PasswordOf(this)
      fields == FrameFields(this, imageData)
      encryptionMeta == fields.encryptionMeta
      messageByteLength == fields.messageByteLength
      extractedMessage == fields.extractedMessage
      extractedChecksum == fields.extractedChecksum
      meta == SplitMeta(encryptionMeta)
  IN  IF Less(messageByteLength, 0)
           \/ Less(getMaxCapacity(this, imageData), messageByteLength)
      THEN { ExtractFailed(InvalidMessageLength, FALSE, FALSE) }
      ELSE IF messageByteLength = 0 THEN { Extracted(<<>>, FALSE, FALSE) }
      ELSE IF ChecksumFails(this, fields)
      THEN { ExtractFailed(IntegrityCheckFailed, TRUE, FALSE) }
      ELSE IF password # <<>> /\ encryptionMeta # <<>>
      THEN IF meta.salt = <<>> \/ meta.iv = <<>>
           THEN { ExtractFailed(InvalidEncryptionMetadata, this.checksum, FALSE) }
           ELSE { IF d.ok THEN Extracted(d.text, this.checksum, TRUE)
                  ELSE ExtractFailed(DecryptionFailed, this.checksum, TRUE) :
                    d \in aesDecrypt(extractedMessage, password, meta.salt,
                                     meta.iv, encryptions) }
      ELSE { Extracted(extractedMessage, this.checksum, FALSE) }

\* hasHiddenData (text-blind-watermark.ts 653-706): the boolean returned.
\* The body calls neither calculateChecksum nor aesDecrypt, and whatever
\* it throws is caught and answered with false.
hasHiddenData(this, imageData) ==
  LET index1 == ReadTo(imageData, 0, 32)
      encryptionMetaLength == ParseInt2(BinaryData(imageData, index1))
      encryptionMetaBits == Times(encryptionMetaLength, 8)
      totalBitsNeeded == Plus(Plus(32, encryptionMetaBits), 32)
      index2 == ReadTo(imageData, index1, totalBitsNeeded)
      messageLengthStart == Plus(32, encryptionMetaBits)
      messageLength ==
        ParseInt2(Slice(BinaryData(imageData, index2), messageLengthStart,
                        messageLengthStart + 32))
      maxCapacity == getMaxCapacity(this, imageData)
      checksumLength == IF this.checksum THEN 8 ELSE 0
      totalDataLength == encryptionMetaLength + messageLength + checksumLength
  IN  IF index1 < 32 THEN FALSE
      ELSE IF index2 < totalBitsNeeded THEN FALSE
      ELSE encryptionMetaLength >= 0 /\ messageLength > 0
             /\ totalDataLength <= maxCapacity

(***************************************************************************)
(* The inputs and the operations of the image codec.                       *)
(***************************************************************************)
MaxMessageLen == 2

\* 'a' and U+00E9, which takes two bytes of UTF-8.
MessageChars == { 97, 233 }

Messages == SeqsUpTo(MessageChars, MaxMessageLen)

\* The password 'pw'.
Pw == << 112, 119 >>

\* options.password: undefined, '' or 'pw'; options.checksum: undefined,
\* true or false.
ImageOptions ==
  [password : { <<>>, << <<>> >>, << Pw >> },
   checksum : { <<>>, << TRUE >>, << FALSE >> }]

\* Width and height of the covers: from one that holds no frame, over ones
\* that hold the frames without a password, to ones that hold the 65 bytes
\* of encryption metadata and the 44 characters of a ciphertext.
ImageSizes ==
  { << 1, 1 >>, << 11, 1 >>, << 5, 4 >>, << 8, 6 >>, << 16, 16 >>,
    << 41, 8 >>, << 48, 7 >> }

\* The value every channel byte of a cover has.
Fills == { 0, 255 }

Image(width, height, fill) ==
  [width |-> width, height |-> height,
   data |-> [i \in 1..(width * height * 4) |-> fill]]

Covers == { Image(size[1], size[2], fill) : size \in ImageSizes, fill \in Fills }

\* WordArray.random(128 / 8).toString(): 32 hexadecimal characters.
RandomHex == { [i \in 1..32 |-> HexChar(d)] : d \in { 0, 10 } }

\* The 8 bytes of salt the library draws for an encryption.
RandomSalts == { [i \in 1..8 |-> b] : b \in { 1, 2 } }

\* The case of the capacity test: a cover of 100 x 100 pixels, no checksum,
\* and messages of floor((100 * 100 * 3 - 32) / 8) = 3746 bytes and of one
\* byte more.
BoundaryCover == Image(100, 100, 255)

BoundaryMessages == { [i \in 1..n |-> 97] : n \in { 3746, 3747 } }

InitImage ==
  /\ \/ /\ imOptions \in ImageOptions
        /\ cover \in Covers
        /\ message \in Messages
     \/ /\ imOptions = [password |-> <<>>, checksum |-> << FALSE >>]
        /\ cover = BoundaryCover
        /\ message \in BoundaryMessages
  /\ vault = {}
  /\ hidden = <<>>
  /\ flipped = <<>>
  /\ read = <<>>
  /\ probe = <<>>
  /\ TextInputs({ << <<>>, <<>> >> }, { <<>> }, { <<>> }, { Bytes(<<>>) })
  /\ wmOptions.encoding = <<>>
  /\ TextStart

Stego == ImageSteganography(imOptions)

\* hideData(cover, message); `cover` is the caller's imageData, as it is
\* after the call.
HideData ==
  /\ hidden = <<>>
  /\ probe = <<>>
  /\ \E salt \in RandomHex, kdfSalt \in RandomSalts :
       LET iv == salt
           r == hideData(Stego, cover, message, salt, iv, kdfSalt)
           enc == aesEncrypt(message, PasswordOf(Stego), salt, iv, kdfSalt)
       IN  /\ hidden' = << r >>
           /\ cover' = r.input
           /\ vault' = IF PasswordOf(Stego) = <<>> THEN vault
                       ELSE vault \cup { [encrypted |-> enc.encrypted,
                                          key |-> deriveKey(PasswordOf(Stego), salt),
                                          data |-> message] }
  /\ UNCHANGED << imOptions, message, flipped, read, probe, textVars >>

HasHidden == hidden # <<>> /\ hidden[1].ok

\* The image with the least-significant bit of the channel byte of frame
\* bit n flipped.
FlipLsb(imageData, n) ==
  [imageData EXCEPT !.data[ChannelOf(n)] =
     SetLsb(@, 1 - (@ % 2))]

\* The image extractData is given: the one hideData returned, or that one
\* with a bit flipped.
Examined ==
  IF flipped = <<>> THEN hidden[1].image ELSE FlipLsb(hidden[1].image, flipped[1])

\* extractData(image), on the instance that hid the message.
ExtractData ==
  /\ HasHidden
  /\ read = <<>>
  /\ probe = <<>>
  /\ \E r \in extractData(Stego, Examined, vault) : read' = << r >>
  /\ UNCHANGED << imOptions, cover, message, vault, hidden, flipped, probe,
                  textVars >>

\* The least-significant bit of a channel byte that carries frame bit n is
\* flipped in the image hideData returned.
Tamper(n) ==
  /\ HasHidden
  /\ flipped = <<>>
  /\ n < hidden[1].parts.frameBits
  /\ n < ReadableBits(hidden[1].image)
  /\ flipped' = << n >>
  /\ read' = <<>>
  /\ UNCHANGED << imOptions, cover, message, vault, hidden, probe, textVars >>

\* getMaxCapacity(cover).
GetMaxCapacity ==
  /\ probe = <<>>
  /\ probe' = << [op |-> "getMaxCapacity", subject |-> "cover",
                  result |-> getMaxCapacity(Stego, cover)] >>
  /\ UNCHANGED << imOptions, cover, message, vault, hidden, flipped, read,
                  textVars >>

\* hasHiddenData, on the instance that hides the message: of the cover, or
\* of the image hideData returned.
HasHiddenData(subject) ==
  /\ probe = <<>>
  /\ subject = "hidden" => HasHidden
  /\ probe' = << [op |-> "hasHiddenData", subject |-> subject,
                  result |-> hasHiddenData(Stego, IF subject = "hidden"
                                                  THEN hidden[1].image
                                                  ELSE cover)] >>
  /\ UNCHANGED << imOptions, cover, message, vault, hidden, flipped, read,
                  textVars >>

\* extractData on an instance constructed with `options`: of the caller's
\* image, or of the image hideData returned.
ExtractFrom(subject, options) ==
  /\ probe = <<>>
  /\ subject = "hidden" => HasHidden
  /\ \E r \in extractData(ImageSteganography(options),
                          IF subject = "hidden" THEN hidden[1].image ELSE cover,
                          vault) :
       probe' = << [op |-> "extractData", subject |-> subject,
                    options |-> options, result |-> r] >>
  /\ UNCHANGED << imOptions, cover, message, vault, hidden, flipped, read,
                  textVars >>

NextImage ==
  \/ HideData
  \/ ExtractData
  \/ GetMaxCapacity
  \/ \E subject \in { "cover", "hidden" } : HasHiddenData(subject)

SpecImage == InitImage /\ [][NextImage]_vars

\* Tampering: instances without a password, the checksum on and off, on
\* the covers of 8 x 6 pixels, and an instance with a password and the
\* checksum on a cover of 48 x 7 pixels; every cover holds the whole frame.
TamperMessages == { << 97 >>, << 233 >> }

InitTamper ==
  /\ \/ /\ imOptions \in [password : { <<>> }, checksum : { <<>>, << FALSE >> }]
        /\ cover \in { Image(8, 6, fill) : fill \in Fills }
        /\ message \in TamperMessages
     \/ /\ imOptions = [password |-> << Pw >>, checksum |-> <<>>]
        /\ cover = Image(48, 7, 255)
        /\ message = << 97 >>
  /\ vault = {}
  /\ hidden = <<>>
  /\ flipped = <<>>
  /\ read = <<>>
  /\ probe = <<>>
  /\ TextInputs({ << <<>>, <<>> >> }, { <<>> }, { <<>> }, { Bytes(<<>>) })
  /\ wmOptions.encoding = <<>>
  /\ TextStart

FrameBits == IF HasHidden THEN 0..(hidden[1].parts.frameBits - 1) ELSE {}

NextTamper ==
  \/ HideData
  \/ \E n \in FrameBits : Tamper(n)
  \/ ExtractData

SpecTamper == InitTamper /\ [][NextTamper]_vars

\* Probing carriers of any origin.  A carrier is given by its dimensions,
\* the length of its buffer, and the header its least-significant bits
\* declare: metadata length, as many metadata bytes (of value 58), and
\* message length; the bytes beyond the header are 254.
ProbeSizes == { << 10, 10 >>, << 48, 7 >> }

\* The length of the buffer: <<>> for width * height * 4; or no byte at
\* all, 40 bytes (they end within the first length field), the 100 bytes
\* of the test suite, and 84, 93 and 777 bytes (they end within the second
\* length field for 0, 1 and 65 bytes of metadata).
BufferLengths == { <<>>, << 0 >>, << 40 >>, << 84 >>, << 93 >>, << 100 >>, << 777 >> }

DeclaredLengths == { 0, 1, 4, 44, 65, 4000 }

Header(m, n) ==
  LengthBinary(m) \o stringToBinary([i \in 1..m |-> 58]) \o LengthBinary(n)

Carrier(size, length, m, n) ==
  [width |-> size[1], height |-> size[2],
   data |-> Embed([i \in 1..(IF length = <<>> THEN size[1] * size[2] * 4
                             ELSE length[1]) |-> 254],
                  Header(m, n))]

ProbeCarriers ==
  { Carrier(size, length, m, n) :
      size \in ProbeSizes, length \in BufferLengths,
      m \in { 0, 1, 65 }, n \in DeclaredLengths }

InitProbe ==
  /\ imOptions \in [password : { <<>>, << Pw >> },
                     checksum : { <<>>, << TRUE >>, << FALSE >> }]
  /\ cover \in ProbeCarriers \cup Covers
  /\ message = <<>>
  /\ vault = {}
  /\ hidden = <<>>
  /\ flipped = <<>>
  /\ read = <<>>
  /\ probe = <<>>
  /\ TextInputs({ << <<>>, <<>> >> }, { <<>> }, { <<>> }, { Bytes(<<>>) })
  /\ wmOptions.encoding = <<>>
  /\ TextStart

NextProbe == GetMaxCapacity \/ HasHiddenData("cover")

SpecProbe == InitProbe /\ [][NextProbe]_vars

\* Instances with different passwords: the message is hidden with the
\* password 'pw' in a cover that holds the whole frame (1000 bits with the
\* checksum, in 48 x 7 x 3 slots), and read by an instance with the
\* password 'pw', 'px' or none and the checksum option of either value.
OtherPw == << 112, 120 >>

InitKeys ==
  /\ imOptions \in [password : { << Pw >> }, checksum : { <<>>, << FALSE >> }]
  /\ cover \in { Image(48, 7, fill) : fill \in Fills }
  /\ message \in Messages
  /\ vault = {}
  /\ hidden = <<>>
  /\ flipped = <<>>
  /\ read = <<>>
  /\ probe = <<>>
  /\ TextInputs({ << <<>>, <<>> >> }, { <<>> }, { <<>> }, { Bytes(<<>>) })
  /\ wmOptions.encoding = <<>>
  /\ TextStart

ReaderOptions ==
  [password : { <<>>, << Pw >>, << OtherPw >> }, checksum : { <<>>, << FALSE >> }]

NextKeys ==
  \/ HideData
  \/ \E options \in ReaderOptions : ExtractFrom("hidden", options)

SpecKeys == InitKeys /\ [][NextKeys]_vars

\* Reading frames of any content.  A carrier is given by its dimensions and
\* the frame its least-significant bits hold: the metadata, the message
\* length declared, the checksum field if there is one, and the bytes of
\* the message actually stored; the bytes beyond the frame are 254.  The
\* images of 1, 11 and 21 pixels end within the length fields, the one of
\* 25 pixels holds 75 bits, the one of 10 x 10 pixels every frame.
FrameSizes == { << 1, 1 >>, << 11, 1 >>, << 21, 1 >>, << 25, 1 >>, << 10, 10 >> }

\* '', 'a:b', 'a:b:c', 'ab', ':b' and 'a:'.
FrameMetas ==
  { <<>>, << 97, 58, 98 >>, << 97, 58, 98, 58, 99 >>, << 97, 98 >>,
    << 58, 98 >>, << 97, 58 >> }

\* 31 and 33 are getMaxCapacity of 10 x 10 pixels with and without checksum.
FrameLengths == { 0, 1, 2, 31, 33, 34, 4000 }

\* The message stored: 'a'.
FrameMessage == << 97 >>

\* No checksum field, the checksum of the message stored, or '00000000'.
FrameChecksums ==
  { <<>>, calculateChecksum(FrameMessage), [i \in 1..8 |-> 48] }

Frame(meta, n, checksum, stored) ==
  LengthBinary(Len(TextEncode(meta))) \o stringToBinary(meta)
    \o LengthBinary(n) \o stringToBinary(checksum) \o stringToBinary(stored)

FramedCarrier(size, meta, n, checksum, stored) ==
  [width |-> size[1], height |-> size[2],
   data |-> Embed([i \in 1..(size[1] * size[2] * 4) |-> 254],
                  Frame(meta, n, checksum, stored))]

FramedCarriers ==
  { FramedCarrier(size, meta, n, checksum, FrameMessage) :
      size \in FrameSizes, meta \in FrameMetas, n \in FrameLengths,
      checksum \in FrameChecksums }

InitFrames ==
  /\ imOptions \in [password : { <<>>, << Pw >> }, checksum : { <<>>, << FALSE >> }]
  /\ cover \in FramedCarriers
  /\ message = <<>>
  /\ vault = {}
  /\ hidden = <<>>
  /\ flipped = <<>>
  /\ read = <<>>
  /\ probe = <<>>
  /\ TextInputs({ << <<>>, <<>> >> }, { <<>> }, { <<>> }, { Bytes(<<>>) })
  /\ wmOptions.encoding = <<>>
  /\ TextStart

NextFrames == ExtractFrom("cover", imOptions) \/ GetMaxCapacity

SpecFrames == InitFrames /\ [][NextFrames]_vars

(***************************************************************************)
(* addWatermarkRandom step by step: the loop of insertWatermarkRandomly    *)
(* that draws the positions (index.ts 363-370), one call of nextInt in a   *)
(* step.  The seed may be any number, NaN included.                        *)
(***************************************************************************)
\* SimpleRandom.next: the state it stores.  NaN * 9301 + 49297 is NaN, and
\* so is NaN % 233280.
next(seed) == IF seed = NaN THEN NaN ELSE LcgStep(seed)

\* nextInt(max) on the state that next() has just stored; Math.floor(NaN)
\* is NaN.
nextIntOf(seed, max) == IF seed = NaN THEN NaN ELSE nextInt(seed, max)

LoopSeeds == { <<>>, << 0 >>, << 12345 >>, << -60 >>, << NaN >> }

InitLoop ==
  /\ wmOptions \in [password : { << Str(<< 97 >>) >> }, seed : LoopSeeds,
                    encoding : EncodingOptions]
  /\ rdOptions = [wmOptions EXCEPT !.seed = <<>>]
  /\ carrier \in { <<>>, << 97, 98 >> }
  /\ payload \in { Bytes(<<>>), Bytes(<< 65 >>) }
  /\ TextStart
  /\ ImageIdle

\* The call of addWatermarkRandom(carrier, payload) up to the loop: it
\* returns the carrier if the encoded watermark is empty, and constructs
\* the generator otherwise.
BeginInsert ==
  /\ marked = <<>>
  /\ loop = <<>>
  /\ \E now \in NowFor(Writer) :
       IF WatermarkChars(Writer, payload) = <<>>
       THEN /\ marked' = << [returned |-> TRUE, text |-> carrier,
                             positions |-> <<>>] >>
            /\ loop' = <<>>
       ELSE /\ loop' = << [watermarkArray |-> WatermarkChars(Writer, payload),
                           i |-> 0, positions |-> <<>>,
                           seed |-> SimpleRandom(Writer.seed, now, random)] >>
            /\ marked' = <<>>
  /\ UNCHANGED << wmOptions, rdOptions, carrier, payload, repeat, calls,
                  random, extracted, removed, detected, scan, imageVars >>

\* One pass of do { pos = random.nextInt(textArray.length + i + 1) }
\* while (positions.includes(pos)): the position is pushed and i
\* incremented, or it is taken already and the body runs again.
\* Array.prototype.includes finds NaN in an array that holds it.
Draw ==
  /\ loop # <<>>
  /\ loop[1].i < Len(loop[1].watermarkArray)
  /\ LET seed == next(loop[1].seed)
         pos == nextIntOf(seed, Len(carrier) + loop[1].i + 1)
     IN  loop' = IF pos \in Range(loop[1].positions)
                 THEN << [loop[1] EXCEPT !.seed = seed] >>
                 ELSE << [loop[1] EXCEPT !.i = @ + 1,
                                         !.positions = Append(@, pos),
                                         !.seed = seed] >>
  /\ UNCHANGED << wmOptions, rdOptions, carrier, payload, marked, repeat,
                  calls, random, extracted, removed, detected, scan,
                  imageVars >>

\* The loop is left: the positions are sorted, the characters inserted and
\* the text returned.
EndInsert ==
  /\ loop # <<>>
  /\ loop[1].i = Len(loop[1].watermarkArray)
  /\ marked' = << [returned |-> TRUE,
                   text |-> InsertChars(carrier, loop[1].watermarkArray,
                                        Ascending(loop[1].positions), 1),
                   positions |-> loop[1].positions] >>
  /\ random' = << loop[1].seed >>
  /\ calls' = 1
  /\ loop' = <<>>
  /\ UNCHANGED << wmOptions, rdOptions, carrier, payload, repeat, extracted,
                  removed, detected, scan, imageVars >>

NextLoop == BeginInsert \/ Draw \/ EndInsert

\* A call that is in the loop goes on: the body runs again whenever the
\* loop condition holds.
SpecLoop == InitLoop /\ [][NextLoop]_vars /\ WF_vars(Draw)

(***************************************************************************)
(* The claims about the image codec.                                       *)
(***************************************************************************)
\* C2: extractData, on the instance that hid it, of the image hideData
\* returned gives back exactly the message, for every cover, every option
\* set and every message that hideData accepts.
C2_ImageRoundTrip ==
  (read # <<>> /\ flipped = <<>>) => (read[1].ok /\ read[1].text = message)

\* The bytes hideData counts: encryption metadata, message as stored, and
\* checksum.
RequiredBytes(parts) ==
  Len(TextEncode(parts.encryptionMeta)) + Len(TextEncode(parts.processedMessage))
    + Len(TextEncode(parts.checksum))

\* C4: hideData throws 'Message too large', naming getMaxCapacity(cover)
\* and the bytes required, exactly when the bytes of encryption metadata,
\* message and checksum together exceed getMaxCapacity(cover), and returns
\* an image otherwise; on the cover of 100 x 100 pixels without checksum
\* it accepts 3746 = floor((100 * 100 * 3 - 32) / 8) bytes and rejects 3747.
C4_CapacityCheck ==
  hidden # <<>>
    => LET r == hidden[1]
           required == RequiredBytes(r.parts)
           limit == getMaxCapacity(Stego, cover)
       IN  /\ r.ok <=> ~(required > limit)
           /\ ~r.ok => /\ r.error = MessageTooLarge
                       /\ r.maxCapacity = limit
                       /\ r.totalDataSize = required
           /\ r.ok => /\ r.image.width = cover.width
                      /\ r.image.height = cover.height
                      /\ Len(r.image.data) = Len(cover.data)
           /\ cover = BoundaryCover
                => /\ limit = (100 * 100 * 3 - 32) \div 8
                   /\ limit = 3746
                   /\ r.ok <=> (Len(message) = 3746)

C4_Witness ==
  /\ hidden # <<>>
  /\ cover = BoundaryCover
  /\ ~hidden[1].ok
  /\ hidden[1].totalDataSize = getMaxCapacity(Stego, cover) + 1

\* C5: an instance constructed without options accepts every message
\* whose length is at most getMaxCapacity(cover).
C5_CapacityIsMaxCharacters ==
  (/\ hidden # <<>>
   /\ imOptions = [password |-> <<>>, checksum |-> <<>>]
   /\ StringLength(message) <= getMaxCapacity(Stego, cover))
    => hidden[1].ok

\* C6: with the checksum on, extractData of an image hideData returned in
\* which the least-significant bit of a channel byte carrying a frame bit
\* was flipped throws 'Data integrity check failed'.
C6_CorruptionDetected ==
  (read # <<>> /\ flipped # <<>> /\ Stego.checksum)
    => (~read[1].ok /\ read[1].error = IntegrityCheckFailed)

\* C7: for every option set, extractData of the image hideData returned
\* for the empty message returns '' and runs neither the checksum
\* comparison nor the decryption.
C7_EmptyPayload ==
  (read # <<>> /\ flipped = <<>> /\ message = <<>>)
    => read[1] = Extracted(<<>>, FALSE, FALSE)

\* C11: getMaxCapacity(cover) is floor((width * height * 3 - headerBits) / 8),
\* with headerBits = 32 when the checksum is disabled and 32 + 16 when it is
\* enabled, for every width and height: it is the one integer c with
\* 8c <= width * height * 3 - headerBits < 8c + 8.
C11_CapacityFormula ==
  (probe # <<>> /\ probe[1].op = "getMaxCapacity")
    => LET headerBits == IF imOptions.checksum = << FALSE >> THEN 32 ELSE 32 + 16
           bits == cover.width * cover.height * 3 - headerBits
           c == probe[1].result
       IN  /\ 8 * c <= bits
           /\ bits < 8 * c + 8

\* getMaxCapacity has been called for a cover of one pixel, which is too
\* small for the header: the quotient is negative and not whole.
C11_Witness ==
  /\ probe # <<>>
  /\ probe[1].op = "getMaxCapacity"
  /\ cover.width * cover.height = 1
  /\ imOptions.checksum = <<>>
  /\ probe[1].result = 0 - 6

\* C12: hideData never mutates the caller's imageData: after every call,
\* returning or throwing, its bytes, width and height are what they were,
\* and a call that returns gives an image whose data is another array, with
\* the same width, height and number of bytes.
C12_CarrierNotMutated ==
  [][hidden' # hidden
       => /\ cover' = cover
          /\ hidden'[1].ok
               => /\ hidden'[1].fresh
                  /\ hidden'[1].image.width = cover.width
                  /\ hidden'[1].image.height = cover.height
                  /\ Len(hidden'[1].image.data) = Len(cover.data)]_vars

\* hideData has returned an image whose bytes differ from the cover's.
C12_Witness ==
  /\ HasHidden
  /\ hidden[1].image.data # cover.data
  /\ Len(cover.data) > 0

\* C13: the image hideData returns differs from the cover only in the
\* least-significant bit of the first L RGB channel bytes, L being the
\* number of frame bits and frame bit k lying in byte 4 * floor(k / 3) +
\* (k mod 3): every alpha byte and every byte beyond the frame is the
\* cover's, and so are the upper seven bits of every byte.
C13_OnlyFrameLsbsChange ==
  HasHidden
    => LET out == hidden[1].image.data
           L == hidden[1].parts.frameBits
       IN  /\ Len(out) = Len(cover.data)
           /\ \A i \in 1..Len(out) :
                LET pixel == (i - 1) \div 4
                    channel == (i - 1) % 4
                IN  /\ out[i] \div 2 = cover.data[i] \div 2
                    /\ (channel = 3 \/ 3 * pixel + channel >= L)
                         => out[i] = cover.data[i]

\* hideData has returned an image with changed bytes and with pixels
\* beyond the frame.
C13_Witness ==
  /\ HasHidden
  /\ hidden[1].image.data # cover.data
  /\ hidden[1].parts.frameBits + 3 <= 3 * cover.width * cover.height
  /\ Stego.password # <<>>

\* The frame as the claim lays it out, from the parts hideData computed:
\* 32 bits of metadata length m, 8m metadata bits, 32 bits of message
\* length n, the checksum's bits if there is one, 8n message bits.
ExpectedFrame(parts) ==
  LET meta == TextEncode(parts.encryptionMeta)
      stored == TextEncode(parts.processedMessage)
  IN  ToBits(Len(meta), 32) \o bytesToBitString(meta)
        \o ToBits(Len(stored), 32) \o bytesToBitString(TextEncode(parts.checksum))
        \o bytesToBitString(stored)

\* C14: the least-significant bits of the image hideData returns, read
\* pixel by pixel in R, G, B order, are the metadata length, the metadata,
\* the message length, the checksum if enabled, and the message, in that
\* order, and extractData reads each field at that place.
C14_FrameLayout ==
  HasHidden
    => LET parts == hidden[1].parts
           image == hidden[1].image
           frame == ExpectedFrame(parts)
           m == Len(TextEncode(parts.encryptionMeta))
           n == Len(TextEncode(parts.processedMessage))
           checksumBits == 8 * Len(TextEncode(parts.checksum))
           fields == FrameFields(Stego, image)
       IN  /\ Stego.checksum <=> checksumBits > 0
           /\ Len(frame) = parts.frameBits
           /\ \A k \in 0..(Len(frame) - 1) :
                /\ 4 * (k \div 3) + (k % 3) < Len(image.data)
                /\ image.data[4 * (k \div 3) + (k % 3) + 1] % 2 = frame[k + 1]
           /\ fields.encryptionMetaLength = m
           /\ fields.encryptionMetaAt = 32
           /\ fields.encryptionMeta = parts.encryptionMeta
           /\ fields.messageByteLengthAt = 32 + 8 * m
           /\ fields.messageByteLength = n
           /\ fields.checksumAt = 32 + 8 * m + 32
           /\ fields.extractedChecksum = parts.checksum
           /\ fields.messageAt = 32 + 8 * m + 32 + checksumBits
           /\ fields.extractedMessage = parts.processedMessage

\* C17: hasHiddenData, with the same options, of the image hideData
\* returned for a non-empty message is true, for every cover, option set
\* and message hideData accepts.
C17_HiddenDataDetected ==
  (/\ probe # <<>>
   /\ probe[1].op = "hasHiddenData"
   /\ probe[1].subject = "hidden"
   /\ message # <<>>)
    => probe[1].result = TRUE

\* The RGB channel bytes the buffer holds: so many bits can be read.
BitsHeld(imageData) ==
  3 * (Len(imageData.data) \div 4) + Min({ Len(imageData.data) % 4, 3 })

\* The header a carrier declares, read from the bits its buffer holds:
\* whether both length fields lie within the buffer, and their values.
DeclaredHeader(imageData) ==
  LET held == BitsHeld(imageData)
      stream == [k \in 1..held |-> imageData.data[ChannelOf(k - 1)] % 2]
      m == IF held >= 32 THEN ParseInt2(SubSeq(stream, 1, 32)) ELSE NaN
      complete == held >= 32 /\ m < Huge /\ held >= 32 + 8 * m + 32
  IN  [complete |-> complete,
       m |-> m,
       n |-> IF complete THEN ParseInt2(SubSeq(stream, 33 + 8 * m, 64 + 8 * m))
             ELSE NaN]

\* C18: hasHiddenData returns a boolean for every carrier; it returns true
\* only if the declared lengths satisfy m >= 0, n > 0 and m + n + checksum
\* bytes <= getMaxCapacity, and it returns false for every carrier whose
\* two length fields do not lie wholly within its buffer, a buffer shorter
\* than width * height * 4 included.
C18_ProbeIsSafe ==
  (probe # <<>> /\ probe[1].op = "hasHiddenData" /\ probe[1].subject = "cover")
    => LET header == DeclaredHeader(cover)
           checksumBytes == IF Stego.checksum THEN 8 ELSE 0
       IN  /\ probe[1].result \in BOOLEAN
           /\ ~header.complete => probe[1].result = FALSE
           /\ (header.complete /\ probe[1].result)
                => /\ header.m >= 0
                   /\ header.n > 0
                   /\ header.m + header.n + checksumBytes
                        <= getMaxCapacity(Stego, cover)

(***************************************************************************)
(* Claims about the text codec, continued.                                 *)
(***************************************************************************)
\* C21: alphabet isolation.  A reader constructed with the writer's password
\* and another encoding mode, given the text the writer returned, either
\* fails with the malformed-watermark error or returns bytes different from
\* the payload; it never returns the payload.
C21_AlphabetIsolation ==
  ExtractedBy("reader") /\ Reader.encoding # Writer.encoding =>
    LET result == extracted[1].result
    IN  IF result.ok THEN result.bytes # PayloadBytesOf(payload)
        ELSE result.error = InvalidFormat

\* C24: addWatermarkRandom draws as many insertion indices as the encoded
\* watermark has characters, pairwise distinct, the i-th of them (i counted
\* from 0) in the range 0 .. carrier length + i, for every integer seed
\* and for the default taken from the clock.
C24_InsertionIndices ==
  HasMarked
    => LET positions == marked[1].positions
           count == Len(WatermarkChars(Writer, payload))
       IN  /\ Len(positions) = count
           /\ \A i, j \in 1..count : i # j => positions[i] # positions[j]
           /\ \A i \in 1..count :
                /\ 0 <= positions[i]
                /\ positions[i] <= Len(carrier) + (i - 1)

\* The numbers of carrier characters that k characters of `text` may hold
\* when `text` is read as an interleaving of `first` and `second`.
RECURSIVE Interleaved(_, _, _, _)
Interleaved(text, first, second, k) ==
  IF k = 0 THEN { 0 }
  ELSE LET before == Interleaved(text, first, second, k - 1)
       IN  { i + 1 : i \in { h \in before : /\ h < Len(first)
                                            /\ first[h + 1] = text[k] } }
             \cup { i \in before : /\ k - i <= Len(second)
                                   /\ second[k - i] = text[k] }

\* ceil(a / b).
CeilDiv(a, b) == (a + b - 1) \div b

\* C25: the text addWatermarkRandom returns holds the carrier's code points
\* in their order and the characters of the encoded watermark in their
\* order, and nothing else; its length is the carrier's plus 2n (hex), 8n
\* (binary), 4n (base4) or ceil((32 + 8n) / 3) (base8) for a payload of n
\* bytes.
C25_InsertionKeepsOrder ==
  HasMarked
    => LET text == marked[1].text
           symbols == WatermarkChars(Writer, payload)
           n == Len(PayloadBytesOf(payload))
           s == CASE Writer.encoding = "binary" -> 8 * n
                  [] Writer.encoding = "base4" -> 4 * n
                  [] Writer.encoding = "base8" -> CeilDiv(32 + 8 * n, 3)
                  [] OTHER -> 2 * n
       IN  /\ Len(symbols) = s
           /\ Len(text) = Len(carrier) + s
           /\ Len(carrier) \in Interleaved(text, carrier, symbols, Len(text))

\* The loop has drawn a position for every character of the watermark.
LoopLeft ==
  \/ marked # <<>>
  \/ loop # <<>> /\ loop[1].i = Len(loop[1].watermarkArray)

\* C30: the loop of insertWatermarkRandomly that redraws a position until
\* it is not taken ends for every seed, carrier and watermark: a call of
\* addWatermarkRandom that has entered the loop leaves it, and returns.
C30_LoopTerminates == (loop # <<>>) ~> LoopLeft

ReadWithOtherPassword ==
  /\ probe # <<>>
  /\ probe[1].op = "extractData"
  /\ probe[1].subject = "hidden"
  /\ PasswordOf(Stego) # <<>>
  /\ PasswordOf(ImageSteganography(probe[1].options))
       \notin { <<>>, PasswordOf(Stego) }
  /\ ImageSteganography(probe[1].options).checksum = Stego.checksum

C23_WholeFrameWritten ==
  HasHidden
    => LET r == hidden[1]
           m == Len(TextEncode(r.parts.encryptionMeta))
           n == Len(TextEncode(r.parts.processedMessage))
           frame == ExpectedFrame(r.parts)
           frameBits == 64 + 8 * m + (IF Stego.checksum THEN 64 ELSE 0) + 8 * n
       IN  /\ frameBits = Len(frame)
           /\ frameBits <= cover.width * cover.height * 3
           /\ \A k \in 1..frameBits :
                /\ ChannelOf(k - 1) <= Len(r.image.data)
                /\ r.image.data[ChannelOf(k - 1)] % 2 = frame[k]

\* Whether extractData was called on the caller's image.
ExtractedFromCover ==
  probe # <<>> /\ probe[1].op = "extractData" /\ probe[1].subject = "cover"

C27_IncompleteFrameRaises ==
  ExtractedFromCover
    => LET header == DeclaredHeader(cover)
           declared == 64 + 8 * header.m + (IF Stego.checksum THEN 64 ELSE 0)
                         + 8 * header.n
       IN  (~header.complete \/ BitsHeld(cover) < declared)
             => ~probe[1].result.ok

\* C28: with the checksum enabled and a message length that passed the
\* validation, the checksum is compared before anything else is done with
\* the message: a mismatch raises 'Data integrity check failed' with or
\* without a password and aesDecrypt is not called, and the metadata is
\* examined and aesDecrypt called only when the checksums are equal.
C28_ChecksumBeforeDecryption ==
  ExtractedFromCover
    => LET fields == FrameFields(Stego, cover)
           result == probe[1].result
           mismatch ==
             fields.extractedChecksum # calculateChecksum(fields.extractedMessage)
       IN  /\ result.decryptRan /\ Stego.checksum => result.checksumRan
           /\ (/\ Stego.checksum
               /\ fields.messageByteLength # 0
               /\ result.error # InvalidMessageLength)
                => /\ result.checksumRan
                   /\ mismatch => /\ ~result.ok
                                  /\ result.error = IntegrityCheckFailed
                                  /\ ~result.decryptRan
                   /\ ~mismatch => result.error # IntegrityCheckFailed
                   /\ result.decryptRan => ~mismatch
                   /\ result.error = InvalidEncryptionMetadata => ~mismatch

C28_Witness ==
  /\ ExtractedFromCover
  /\ Stego.checksum
  /\ PasswordOf(Stego) # <<>>
  /\ FrameFields(Stego, cover).encryptionMeta = << 97, 58, 98 >>
  /\ FrameFields(Stego, cover).messageByteLength = 1
  /\ FrameFields(Stego, cover).extractedChecksum = [i \in 1..8 |-> 48]
  /\ probe[1].result.error = IntegrityCheckFailed
  /\ ~probe[1].result.decryptRan

\* The parts that splitting a string on ':' yields, counted.
PartsOf(str) == Cardinality({ i \in 1..Len(str) : str[i] = 58 }) + 1

\* Whether splitting on ':' yields exactly two parts, both non-empty.
TwoParts(str) ==
  /\ PartsOf(str) = 2
  /\ str[1] # 58
  /\ str[Len(str)] # 58

\* C29: once the length and the checksum have passed, an instance with a
\* password that reads non-empty metadata raises 'Invalid encryption
\* metadata' unless splitting the metadata on ':' yields exactly two
\* non-empty parts; with empty metadata or without a password nothing is
\* split or decrypted and the message read is returned as it is.
C29_MetadataValidated ==
  ExtractedFromCover
    => LET fields == FrameFields(Stego, cover)
           result == probe[1].result
       IN  (/\ fields.messageByteLength # 0
            /\ result.error \notin { InvalidMessageLength, IntegrityCheckFailed })
             => IF PasswordOf(Stego) # <<>> /\ fields.encryptionMeta # <<>>
                THEN (~result.ok /\ result.error = InvalidEncryptionMetadata)
                       <=> ~TwoParts(fields.encryptionMeta)
                ELSE /\ result.ok
                     /\ result.text = fields.extractedMessage
                     /\ ~result.decryptRan

====
